---- MODULE Spec2Model ----
(***************************************************************************)
(* Client of the image/video caption service (static/script.js): the       *)
(* staged selection of files, its validator, the preview grid filled by    *)
(* asynchronous FileReader completions, delayed removal, submit and retry. *)
(*                                                                         *)
(* A file is its (name, size, type).  A message is its text, with % where  *)
(* file names are substituted, and the names substituted.  Styling that no *)
(* handler reads back (CSS classes, the file note, scrolling) is left out. *)
(*                                                                         *)
(* Caption service (the OpenAI module): the startup verification that sets *)
(* the fallback flag, and the four generation strategies with their model  *)
(* call and the parsing of its reply.  A text is the sequence of its       *)
(* lexemes (fence, word, space, brace, quote, ...); a Thai text is written *)
(* as its English gloss after "(th) ".                                     *)
(***************************************************************************)
EXTENDS Bags, FiniteSets, Integers, Sequences, TLC

\* ---------------------------------------------------------------- bounds
MaxBatch == 2
MaxSelected == 2
MaxReads == 2
MaxTimers == 1
MaxInflight == 2
MaxCalls == 1
MaxImages == 3
MaxFrames == 21
MaxDetail == 1

\* ------------------------------------------------------ program constants
maxImageSize == 10 * 1024 * 1024
maxVideoSize == 50 * 1024 * 1024
allowedImageTypes == {"image/jpeg", "image/jpg", "image/png"}
allowedVideoTypes == {"video/mp4"}

\* ------------------------------------------------------------ input sets
\* Files on each side of every threshold of the validator: three admissible
\* images (two of them with the same name), an oversized image, an image of
\* an unsupported type, two admissible videos and an oversized video.
File(n, s, t) == [name |-> n, size |-> s, type |-> t]
Files ==
    { File("a", maxImageSize,     "image/jpeg"),
      File("a", maxImageSize,     "image/png"),
      File("b", maxImageSize,     "image/jpg"),
      File("b", maxImageSize + 1, "image/png"),
      File("a", maxImageSize,     "image/gif"),
      File("a", maxVideoSize,     "video/mp4"),
      File("b", maxImageSize,     "video/mp4"),
      File("b", maxVideoSize + 1, "video/mp4") }
Batches == UNION {[1..n -> Files] : n \in 0..MaxBatch}

\* --------------------------------------------------------------- helpers
Range(s) == {s[i] : i \in 1..Len(s)}

\* the part of a MIME type up to and including the slash
MediaPrefix(t) ==
    CASE t = "image/jpeg" -> "image/"
      [] t = "image/jpg"  -> "image/"
      [] t = "image/png"  -> "image/"
      [] t = "image/gif"  -> "image/"
      [] t = "video/mp4"  -> "video/"

\* file.type.startsWith('video/')
StartsWithVideo(t) == MediaPrefix(t) = "video/"

NoMessage == [text |-> "", names |-> <<>>]

\* ------------------------------------------------------------- validator
\* What validateFiles returns and displays: the returned boolean, whether the
\* error panel is written and made visible, and the text written to it (the
\* message with % for the substituted file names, and those names).
Accept == [ok |-> TRUE, shown |-> FALSE, msg |-> NoMessage]
Reject(text, names) ==
    [ok |-> FALSE, shown |-> TRUE, msg |-> [text |-> text, names |-> names]]
Silent == [ok |-> FALSE, shown |-> FALSE, msg |-> NoMessage]

CannotMix == "Cannot mix videos and images. Please clear your selection first."
NotBoth == "Please upload either a single video or multiple images, not both."
VideoTooLarge == "Video file '%' is too large. Maximum size is 50MB."
UnsupportedTypes == "Unsupported file type(s): %. Only JPG and PNG images are supported."
FilesTooLarge == "File(s) too large: %. Maximum size per image is 10MB."

NamesOf(files) == [i \in 1..Len(files) |-> files[i].name]

\* Array.from(files).some(file => allowedVideoTypes.includes(file.type))
someVideo(files) == \E i \in 1..Len(files) : files[i].type \in allowedVideoTypes

\* the branch "Check video size"
checkVideo_imageLimitAdded(files) ==
    LET IsVideo(f) == f.type \in allowedVideoTypes
        videoFile == Head(SelectSeq(files, IsVideo))
    IN  IF videoFile.size > maxVideoSize + maxImageSize
        THEN Reject(VideoTooLarge, <<videoFile.name>>)
        ELSE Accept

checkVideo(files) ==
    LET IsVideo(f) == f.type \in allowedVideoTypes
        videoFile == Head(SelectSeq(files, IsVideo))
    IN  IF videoFile.size > maxVideoSize
        THEN Reject(VideoTooLarge, <<videoFile.name>>)
        ELSE Accept

\* the branch "Check image types and sizes"
checkImages_noSizeCheck(files) ==
    LET IsInvalid(f) == f.type \notin allowedImageTypes
        invalidFiles == SelectSeq(files, IsInvalid)
    IN  IF Len(invalidFiles) > 0
        THEN Reject(UnsupportedTypes, NamesOf(invalidFiles))
        ELSE Accept

checkImages_noJpg(files) ==
    LET IsInvalid(f) == f.type \notin {"image/jpeg", "image/png"}
        invalidFiles == SelectSeq(files, IsInvalid)
        IsOversized(f) == f.size > maxImageSize
        oversizedFiles == SelectSeq(files, IsOversized)
    IN  IF Len(invalidFiles) > 0
        THEN Reject(UnsupportedTypes, NamesOf(invalidFiles))
        ELSE IF Len(oversizedFiles) > 0
             THEN Reject(FilesTooLarge, NamesOf(oversizedFiles))
             ELSE Accept

checkImages_firstNameOnly(files) ==
    LET IsInvalid(f) == f.type \notin allowedImageTypes
        invalidFiles == SelectSeq(files, IsInvalid)
        IsOversized(f) == f.size > maxImageSize
        oversizedFiles == SelectSeq(files, IsOversized)
    IN  IF Len(invalidFiles) > 0
        THEN Reject(UnsupportedTypes, <<invalidFiles[1].name>>)
        ELSE IF Len(oversizedFiles) > 0
             THEN Reject(FilesTooLarge, <<oversizedFiles[1].name>>)
             ELSE Accept

checkImages(files) ==
    LET IsInvalid(f) == f.type \notin allowedImageTypes
        invalidFiles == SelectSeq(files, IsInvalid)
        IsOversized(f) == f.size > maxImageSize
        oversizedFiles == SelectSeq(files, IsOversized)
    IN  IF Len(invalidFiles) > 0
        THEN Reject(UnsupportedTypes, NamesOf(invalidFiles))
        ELSE IF Len(oversizedFiles) > 0
             THEN Reject(FilesTooLarge, NamesOf(oversizedFiles))
             ELSE Accept

\* validateFiles(files) with sel the value of selectedFiles.files
validateFiles_imagesOntoVideo(files, sel) ==
    IF Len(files) > 0 THEN
        LET hasVideo == someVideo(files)
            hasExistingVideo == someVideo(sel)
        IN  IF hasVideo /\ Len(sel) > 0 /\ ~hasExistingVideo THEN Reject(CannotMix, <<>>)
            ELSE IF hasVideo /\ Len(files) > 1 THEN Reject(NotBoth, <<>>)
            ELSE IF hasVideo THEN checkVideo(files)
            ELSE checkImages(files)
    ELSE Silent

validateFiles_videoFirstOnly(files, sel) ==
    IF Len(files) > 0 THEN
        LET hasVideo == someVideo(files)
            hasExistingVideo == someVideo(sel)
        IN  IF hasVideo /\ Len(sel) > 0 /\ ~hasExistingVideo THEN Reject(CannotMix, <<>>)
            ELSE IF hasExistingVideo /\ ~hasVideo /\ Len(sel) > 0 THEN Reject(CannotMix, <<>>)
            ELSE IF files[1].type \in allowedVideoTypes /\ Len(files) > 1
                 THEN Reject(NotBoth, <<>>)
            ELSE IF hasVideo THEN checkVideo(files)
            ELSE checkImages(files)
    ELSE Silent

validateFiles(files, sel) ==
    IF Len(files) > 0 THEN
        LET hasVideo == someVideo(files)
            hasExistingVideo == someVideo(sel)
        IN  IF hasVideo /\ Len(sel) > 0 /\ ~hasExistingVideo THEN Reject(CannotMix, <<>>)
            ELSE IF hasExistingVideo /\ ~hasVideo /\ Len(sel) > 0 THEN Reject(CannotMix, <<>>)
            ELSE IF hasVideo /\ Len(files) > 1 THEN Reject(NotBoth, <<>>)
            ELSE IF hasVideo THEN checkVideo(files)
            ELSE checkImages(files)
    ELSE Silent

\* ------------------------------------------------------------- selection
isDuplicate_nameAndSize(file, sel) ==
    \E j \in 1..Len(sel) : /\ sel[j].name = file.name
                           /\ sel[j].size = file.size

\* the inner loop of updateSelectedFiles
isDuplicate(file, sel) ==
    \E j \in 1..Len(sel) : /\ sel[j].name = file.name
                           /\ sel[j].size = file.size
                           /\ sel[j].type = file.type

RECURSIVE addEach(_, _)
addEach(newFiles, sel) ==
    IF newFiles = <<>> THEN sel
    ELSE addEach(Tail(newFiles),
                 IF isDuplicate(Head(newFiles), sel) THEN sel
                 ELSE Append(sel, Head(newFiles)))

updateSelectedFiles_noClear(newFiles, sel) == addEach(newFiles, sel)

updateSelectedFiles(newFiles, sel) ==
    LET start == IF Len(newFiles) = 1 /\ StartsWithVideo(newFiles[1].type)
                 THEN <<>> ELSE sel
    IN  addEach(newFiles, start)

\* the filter of removeFile: every file whose name differs from fileName
withoutName(sel, fileName) ==
    LET Keep(f) == f.name # fileName IN SelectSeq(sel, Keep)

\* the FileReader loads started by generatePreviewsWithAnimation, as a bag
RECURSIVE SeqToBag(_)
SeqToBag(s) == IF s = <<>> THEN EmptyBag ELSE SetToBag({Head(s)}) (+) SeqToBag(Tail(s))

\* ----------------------------------------------------------------- state
VARIABLES
    selectedFiles,   \* selectedFiles.files: the staged selection, in order
    previewContent,  \* the .preview-item children of #preview-content, in order
    reads,           \* FileReader loads in flight (bag of files)
    timers,          \* pending 300 ms removal timeouts (bag of file names)
    fileInput,       \* what fileInput.files holds: "empty", "managed" (the
                     \* files of selectedFiles) or "picked" (files the user
                     \* chose and the validator refused)
    errorShown,      \* errorDiv.style.display = 'block'
    errorMsg,        \* errorP.textContent
    resultsShown,    \* resultsDiv.style.display = 'block'
    loading,         \* loadingIndicator.style.display = 'block'
    requests         \* POST /analyze/ requests awaiting their response

VARIABLES
    usingFallbackMode,  \* the module-level flag of the caption service
    verification,       \* the startup verification: "running", or how
                        \* verifyApiKey returned ("valid", "invalid")
    calls               \* the strategy calls whose promise is not yet consumed

VARIABLES
    results,            \* the texts of the results panel: the two captions,
                        \* the two token counts and the two costs
    latest              \* the request submitted last: "none" before the
                        \* first one, "pending", "handled" once its response
                        \* was handled, "overtaken" once the response of an
                        \* older request was handled after its own

VARIABLES
    fetched,            \* a submit listener under inspection: what its await
                        \* of fetch yielded
    shownError,         \* the text it then wrote to the error panel
    shownResults        \* or the texts it wrote to the results panel

clientVars == <<selectedFiles, previewContent, reads, timers, fileInput, errorShown,
                errorMsg, resultsShown, loading, requests>>
serverVars == <<usingFallbackMode, verification, calls>>
panelVars == <<results, latest>>
listenerVars == <<fetched, shownError, shownResults>>
vars == <<clientVars, panelVars, serverVars, listenerVars>>

\* the caption service as the module is loaded
InitServer ==
    /\ usingFallbackMode = FALSE
    /\ verification = "running"
    /\ calls = <<>>

\* no submit listener is under inspection
NotFetched ==
    [kind |-> "none", status |-> 0, body |-> [kind |-> "none", words |-> <<>>],
     error |-> [name |-> "", message |-> NoMessage],
     data |-> [english |-> <<>>, thai |-> <<>>, input_tokens |-> <<>>, output_tokens |-> <<>>]]
NoResults ==
    [english |-> "", thai |-> "", inputTokens |-> <<>>, outputTokens |-> <<>>,
     costUsd |-> [symbol |-> "", count |-> 0, digits |-> 0],
     costThb |-> [symbol |-> "", count |-> 0, digits |-> 0]]
InitListener ==
    /\ fetched = NotFetched
    /\ shownError = NoMessage
    /\ shownResults = NoResults

\* the results panel of index.html, and no request submitted yet
InitPanel ==
    /\ results =
          [english |-> "...", thai |-> "...", inputTokens |-> <<0>>, outputTokens |-> <<0>>,
           costUsd |-> [symbol |-> "$", count |-> 0, digits |-> 2],
           costThb |-> [symbol |-> "(baht)", count |-> 0, digits |-> 2]]
    /\ latest = "none"

\* the page as the script has run
InitClient ==
    /\ selectedFiles = <<>>
    /\ previewContent = <<>>
    /\ reads = EmptyBag
    /\ timers = EmptyBag
    /\ fileInput = "empty"
    /\ errorShown = FALSE
    /\ errorMsg = [text |-> "An error occurred.", names |-> <<>>]
    /\ resultsShown = FALSE
    /\ loading = FALSE
    /\ requests = <<>>

Init == InitClient /\ InitPanel /\ InitServer /\ InitListener

\* fileInput.files = selectedFiles.files
managedFiles(sel) == IF sel = <<>> THEN "empty" ELSE "managed"

\* generatePreviewsWithAnimation: clearPreview, then one FileReader per file
generatePreviewsWithAnimation(sel) ==
    /\ previewContent' = <<>>
    /\ BagCardinality(reads) + Len(sel) <= MaxReads
    /\ reads' = reads (+) SeqToBag(sel)

\* validate, then stage and preview the files of a change or drop event;
\* refused is what the file input holds after a refusal
stageFiles_keepsValidOnes(files, refused) ==
    LET v == validateFiles(files, selectedFiles)
        IsFine(f) == f.type \in allowedImageTypes /\ f.size <= maxImageSize
    IN  IF v.ok
        THEN /\ selectedFiles' = updateSelectedFiles(files, selectedFiles)
             /\ Len(selectedFiles') <= MaxSelected
             /\ fileInput' = managedFiles(selectedFiles')
             /\ generatePreviewsWithAnimation(selectedFiles')
             /\ UNCHANGED <<errorShown, errorMsg>>
        ELSE /\ errorShown' = (errorShown \/ v.shown)
             /\ errorMsg' = IF v.shown THEN v.msg ELSE errorMsg
             /\ fileInput' = refused
             /\ selectedFiles' = updateSelectedFiles(SelectSeq(files, IsFine), selectedFiles)
             /\ Len(selectedFiles') <= MaxSelected
             /\ UNCHANGED <<previewContent, reads>>

stageFiles(files, refused) ==
    LET v == validateFiles(files, selectedFiles)
    IN  IF v.ok
        THEN /\ selectedFiles' = updateSelectedFiles(files, selectedFiles)
             /\ Len(selectedFiles') <= MaxSelected
             /\ fileInput' = managedFiles(selectedFiles')
             /\ generatePreviewsWithAnimation(selectedFiles')
             /\ UNCHANGED <<errorShown, errorMsg>>
        ELSE /\ errorShown' = (errorShown \/ v.shown)
             /\ errorMsg' = IF v.shown THEN v.msg ELSE errorMsg
             /\ fileInput' = refused
             /\ UNCHANGED <<selectedFiles, previewContent, reads>>

\* the 'change' listener of the file input: the browser has already put the
\* chosen files into the input
fileInputChange ==
    \E files \in Batches :
        /\ stageFiles(files, IF files = <<>> THEN "empty" ELSE "picked")
        /\ UNCHANGED <<timers, resultsShown, loading, requests>>

\* the 'drop' listener of the upload area
handleDrop ==
    \E droppedFiles \in Batches :
        /\ stageFiles(droppedFiles, fileInput)
        /\ UNCHANGED <<timers, resultsShown, loading, requests>>

\* the filtering branch of removeFile (the timeout callback and the fallback)
removeNow(fileName) ==
    /\ selectedFiles' = withoutName(selectedFiles, fileName)
    /\ fileInput' = managedFiles(selectedFiles')
    /\ generatePreviewsWithAnimation(selectedFiles')

\* click on the remove button of the i-th preview item
removeFile ==
    \E i \in 1..Len(previewContent) :
        LET fileName == previewContent[i].name
            itemToRemove == \E k \in 1..Len(previewContent) :
                                previewContent[k].name = fileName
        IN  IF itemToRemove
            THEN /\ BagCardinality(timers) < MaxTimers
                 /\ timers' = timers (+) SetToBag({fileName})
                 /\ UNCHANGED <<selectedFiles, previewContent, reads, fileInput,
                                errorShown, errorMsg, resultsShown, loading, requests>>
            ELSE /\ removeNow(fileName)
                 /\ UNCHANGED <<timers, errorShown, errorMsg, resultsShown,
                                loading, requests>>

\* the setTimeout callback of removeFile
removeTimeout ==
    \E fileName \in BagToSet(timers) :
        /\ timers' = timers (-) SetToBag({fileName})
        /\ removeNow(fileName)
        /\ UNCHANGED <<errorShown, errorMsg, resultsShown, loading, requests>>

\* fileReader.onload
readerLoad ==
    \E file \in BagToSet(reads) :
        /\ reads' = reads (-) SetToBag({file})
        /\ previewContent' = Append(previewContent, file)
        /\ UNCHANGED <<selectedFiles, timers, fileInput, errorShown, errorMsg,
                       resultsShown, loading, requests>>

\* the files of the form before the listener replaces them
formFiles ==
    CASE fileInput = "empty"   -> {<<>>}
      [] fileInput = "managed" -> {selectedFiles}
      [] fileInput = "picked"  -> Batches \ {<<>>}

\* new FormData(form), formData.delete('files'), then one append per staged file
formDataFiles_noDelete(inForm, sel) == inForm \o sel

formDataFiles(inForm, sel) == sel

\* the submit listener up to the await of fetch
submit ==
    IF Len(selectedFiles) = 0
    THEN /\ errorMsg' = [text |-> "Please select at least one media file.", names |-> <<>>]
         /\ errorShown' = TRUE
         /\ resultsShown' = FALSE
         /\ UNCHANGED <<selectedFiles, previewContent, reads, timers, fileInput,
                        loading, requests, panelVars>>
    ELSE /\ Len(requests) < MaxInflight
         /\ \E inForm \in formFiles :
                requests' = Append(requests, formDataFiles(inForm, selectedFiles))
         /\ loading' = TRUE
         /\ resultsShown' = FALSE
         /\ errorShown' = FALSE
         /\ results' =
               [english |-> "...", thai |-> "...",
                inputTokens |-> <<0>>, outputTokens |-> <<0>>,
                costUsd |-> [symbol |-> "$", count |-> 0, digits |-> 2],
                costThb |-> [symbol |-> "(baht)", count |-> 0, digits |-> 2]]
         /\ latest' = "pending"
         /\ UNCHANGED <<selectedFiles, previewContent, reads, timers, fileInput, errorMsg>>

\* ------------------------------------------- what the await of fetch yields
\* A response is its status and its body; a body is what response.json()
\* makes of it: it rejects ("not json"), or resolves to null, to an object
\* with a detail string (words), to an object without detail (words under
\* another key), or to an object whose detail is an object or an array of
\* objects.  A rejected fetch is the error it rejects with.
Message(text, names) == [text |-> text, names |-> names]
Body(kind, words) == [kind |-> kind, words |-> words]

\* The JSON of an ok response, as far as the listener reads it: each of the
\* four fields is missing or present with a value.
Missing == <<>>
Present(v) == <<v>>
Data(english, thai, input_tokens, output_tokens) ==
    [english |-> english, thai |-> thai,
     input_tokens |-> input_tokens, output_tokens |-> output_tokens]
NoData == Data(Missing, Missing, Missing, Missing)

Response(status, body) ==
    [kind |-> "response", status |-> status, body |-> body,
     error |-> [name |-> "", message |-> NoMessage], data |-> NoData]
RejectedFetch(name, text) ==
    [kind |-> "rejected", status |-> 0, body |-> Body("none", <<>>),
     error |-> [name |-> name, message |-> Message(text, <<>>)], data |-> NoData]
Ok(data) == [Response(200, Body("data", <<>>)) EXCEPT !.data = data]

Statuses == {400, 401, 403, 404, 413, 415, 422, 429, 500, 503}
StatusText(status) ==
    CASE status = 400 -> "Bad Request"
      [] status = 401 -> "Unauthorized"
      [] status = 403 -> "Forbidden"
      [] status = 404 -> "Not Found"
      [] status = 413 -> "Payload Too Large"
      [] status = 415 -> "Unsupported Media Type"
      [] status = 422 -> "Unprocessable Entity"
      [] status = 429 -> "Too Many Requests"
      [] status = 500 -> "Internal Server Error"
      [] status = 503 -> "Service Unavailable"
      [] OTHER        -> ""

\* The words of a detail: the five phrases the listener looks for, the word
\* its catch block looks for, and phrases it does not look for.
DetailLexemes ==
    {"rate limit", "quota", "file size", "file type", "unsupported", "timeout",
     "Failed to fetch", "Rate limit", "Incorrect API key provided: sk-1234"}
Details == UNION {[1..n -> DetailLexemes] : n \in 0..MaxDetail}
Bodies ==
    {Body("not json", <<>>), Body("null", <<>>), Body("detail object", <<>>),
     Body("detail array", <<>>)}
    \cup {Body("detail", words) : words \in Details}
    \cup {Body("no detail", words) : words \in Details}
ErrorResponses == {Response(status, body) : status \in Statuses, body \in Bodies}

\* The token counts of a response: none, few, the counts around a cost of
\* one cent, a count whose cost lies halfway between two numbers of four
\* decimals, and a million.
TokenCounts == {0, 1, 1000, 24999, 25000, 25125, 1000000}
Captions(texts) == {Missing} \cup {Present(text) : text \in texts}
Datas ==
    {Data(english, thai, input_tokens, output_tokens) :
        english \in Captions({"", "x"}), thai \in Captions({"y"}),
        input_tokens \in Captions(TokenCounts), output_tokens \in Captions(TokenCounts)}
OkResponses == {Ok(data) : data \in Datas} \cup {Response(200, Body("not json", <<>>))}
RejectedFetches ==
    {RejectedFetch("TypeError", "Failed to fetch"),
     RejectedFetch("TypeError", "NetworkError when attempting to fetch resource."),
     RejectedFetch("AbortError", "The user aborted a request."),
     RejectedFetch("TimeoutError", "The operation timed out."),
     RejectedFetch("Error", "")}
FetchOutcomes == ErrorResponses \cup OkResponses \cup RejectedFetches

\* text.includes(phrase): none of the fixed texts of the listener holds one of
\* the phrases that are looked for, so a phrase is found among the words
includes(words, phrase) == phrase \in Range(words)

\* JSON.stringify(errorData)
JSON_stringify(body) ==
    <<"{", IF body.kind = "detail" THEN "detail" ELSE "error", ":">> \o body.words \o <<"}">>

\* errorData.detail || JSON.stringify(errorData)
errorDetailOf(body) ==
    CASE body.kind = "detail" /\ body.words # <<>> -> body.words
      [] body.kind = "detail array"                -> <<"[object Object]">>
      [] OTHER                                     -> JSON_stringify(body)

\* the catch (e) of the block "if (!response.ok)"
statusMessage(status) ==
    IF status = 400
    THEN Message("Invalid request. Please check your files and try again.", <<>>)
    ELSE IF status = 401 \/ status = 403
    THEN Message("Authentication error. Please refresh the page and try again.", <<>>)
    ELSE IF status = 404
    THEN Message("Service endpoint not found. Please contact support.", <<>>)
    ELSE IF status >= 500
    THEN Message("Server error. Our team has been notified. Please try again later.", <<>>)
    ELSE Message("Error: % - %", <<ToString(status), StatusText(status)>>)

\* the try of the block "if (!response.ok)"
detailMessage(status, errorDetail) ==
    IF includes(errorDetail, "rate limit") \/ includes(errorDetail, "quota")
    THEN Message("OpenAI API rate limit exceeded. Please try again in a few moments.", <<>>)
    ELSE IF includes(errorDetail, "file size")
    THEN Message("File size too large. Please upload smaller images or videos.", <<>>)
    ELSE IF includes(errorDetail, "file type") \/ includes(errorDetail, "unsupported")
    THEN Message("Unsupported file type. Please upload JPG, PNG images or MP4 videos.", <<>>)
    ELSE IF status = 413
    THEN Message("The uploaded file is too large. Please reduce file size and try again.", <<>>)
    ELSE IF status = 415
    THEN Message("Unsupported media type. Only JPG, PNG images and MP4 videos are supported.", <<>>)
    ELSE IF status = 429
    THEN Message("Too many requests. Please try again later.", <<>>)
    ELSE IF status >= 500
    THEN Message("Server error. Our team has been notified. Please try again later.", <<>>)
    ELSE Message("Error: %", errorDetail)

\* the block "if (!response.ok)": the message of the Error it throws.  Its
\* try throws when response.json() rejects, when errorData is null (reading
\* detail) and when detail is an object without includes.
errorMessageOf(response) ==
    IF response.body.kind \in {"not json", "null", "detail object"}
    THEN statusMessage(response.status)
    ELSE detailMessage(response.status, errorDetailOf(response.body))

\* what the try of the submit listener throws after the await of fetch:
\* the rejection of fetch, the Error of a response that is not ok, or the
\* SyntaxError of response.json() on an ok response
NotThrown == [thrown |-> FALSE, name |-> "", message |-> NoMessage]
Thrown(name, message) == [thrown |-> TRUE, name |-> name, message |-> message]
thrownAfterFetch(outcome) ==
    CASE outcome.kind = "rejected" -> Thrown(outcome.error.name, outcome.error.message)
      [] outcome.kind = "response" /\ outcome.status \notin 200..299 ->
            Thrown("Error", errorMessageOf(outcome))
      [] outcome.kind = "response" /\ outcome.status \in 200..299
                                   /\ outcome.body.kind = "not json" ->
            Thrown("SyntaxError", Message("Unexpected token % in JSON at position 0", <<"<">>))
      [] OTHER -> NotThrown

\* the catch block of the submit listener: the text written to the error panel
displayedError(error) ==
    LET errorMessage == IF error.message.text # "" THEN error.message
                        ELSE Message("Failed to analyze media. Check console for details.", <<>>)
        text == IF errorMessage.names = <<>> THEN <<errorMessage.text>> ELSE errorMessage.names
    IN  IF error.name = "TypeError" /\ includes(text, "Failed to fetch")
        THEN Message("Network error. Please check your internet connection and try again.", <<>>)
        ELSE IF error.name = "AbortError"
        THEN Message("Request was aborted. Please try again.", <<>>)
        ELSE IF error.name = "TimeoutError" \/ includes(text, "timeout")
        THEN Message("Request timed out. Please try again later.", <<>>)
        ELSE errorMessage

\* ------------------------------------------------ what the results panel shows
\* Costs of gpt-4.1-mini.  An amount of money is a number of units of 10^-7
\* USD (or THB), in which every amount the listener computes from whole
\* token counts is whole: 0.40 USD per 1,000,000 tokens is 4 units per token.
INPUT_COST_USD_PER_MILLION == 4
OUTPUT_COST_USD_PER_MILLION == 16
USD_TO_THB_RATE == 35
Cent == 100000

\* data.english || 'No English caption generated.'
captionOr(field, text) == IF field = Missing \/ field[1] = "" THEN text ELSE field[1]

\* data.input_tokens || 0
tokensOr(field) == IF field = Missing THEN 0 ELSE field[1]

inputCostUsd(inputTokens) == inputTokens * INPUT_COST_USD_PER_MILLION
outputCostUsd_inputRate(outputTokens) == outputTokens * INPUT_COST_USD_PER_MILLION
outputCostUsd(outputTokens) == outputTokens * OUTPUT_COST_USD_PER_MILLION
totalCostUsd(inputTokens, outputTokens) ==
    inputCostUsd(inputTokens) + outputCostUsd(outputTokens)
totalCostThb(inputTokens, outputTokens) ==
    totalCostUsd(inputTokens, outputTokens) * USD_TO_THB_RATE

\* new Intl.NumberFormat('en-US').format(n): the groups of three digits that
\* the commas separate, the first one unpadded
RECURSIVE formatter_format(_)
formatter_format(n) ==
    IF n < 1000 THEN <<n>> ELSE Append(formatter_format(n \div 1000), n % 1000)

\* symbol + amount.toFixed(digits): the nearest number with that many
\* decimals, as a count of its last decimal.  The listener's amounts are
\* doubles, a hair off the decimal amount: of an amount halfway between two
\* such numbers either one can be the nearest.
Money(symbol, count, digits) == [symbol |-> symbol, count |-> count, digits |-> digits]
toFixed(amount, digits) ==
    LET step == IF digits = 6 THEN 10 ELSE 1000
    IN  IF 2 * (amount % step) = step
        THEN {amount \div step, amount \div step + 1}
        ELSE {(amount + step \div 2) \div step}

\* the block "Display results" of the submit listener: the texts it can write
displayedResults(data) ==
    LET inputTokens == tokensOr(data.input_tokens)
        outputTokens == tokensOr(data.output_tokens)
        usd == totalCostUsd(inputTokens, outputTokens)
        thb == totalCostThb(inputTokens, outputTokens)
        digits == IF usd < Cent THEN 6 ELSE 4
    IN  {[english |-> captionOr(data.english, "No English caption generated."),
          thai |-> captionOr(data.thai, "No Thai caption generated."),
          inputTokens |-> formatter_format(inputTokens),
          outputTokens |-> formatter_format(outputTokens),
          costUsd |-> Money("$", usdCount, digits),
          costThb |-> Money("(baht)", thbCount, digits)] :
            usdCount \in toFixed(usd, digits), thbCount \in toFixed(thb, digits)}

\* the outcomes of fetch with which the requests of the page are answered
Answers ==
    {Ok(Data(Present("x"), Present("y"), Present(1000000), Present(0))),
     Ok(NoData),
     Response(500, Body("not json", <<>>))}

\* the submit listener after the await: a response (ok or not) or a failed fetch
response ==
    \E i \in 1..Len(requests), outcome \in Answers :
        LET error == thrownAfterFetch(outcome)
        IN  /\ requests' = SubSeq(requests, 1, i - 1) \o SubSeq(requests, i + 1, Len(requests))
            /\ latest' = IF latest = "pending"
                         THEN IF i = Len(requests) THEN "handled" ELSE "pending"
                         ELSE "overtaken"
            /\ loading' = FALSE
            /\ IF ~error.thrown
               THEN /\ results' \in displayedResults(outcome.data)
                    /\ resultsShown' = TRUE
                    /\ UNCHANGED <<errorShown, errorMsg>>
               ELSE /\ errorMsg' = displayedError(error)
                    /\ errorShown' = TRUE
                    /\ resultsShown' = FALSE
                    /\ UNCHANGED results
            /\ UNCHANGED <<selectedFiles, previewContent, reads, timers, fileInput>>

\* the retry button, which sits inside the error panel
retry_keepsSelection ==
    /\ errorShown
    /\ errorShown' = FALSE
    /\ previewContent' = <<>>
    /\ UNCHANGED <<selectedFiles, fileInput, reads, timers, errorMsg,
                   resultsShown, loading, requests>>

retry ==
    /\ errorShown
    /\ errorShown' = FALSE
    /\ selectedFiles' = <<>>
    /\ fileInput' = "empty"
    /\ previewContent' = <<>>
    /\ UNCHANGED <<reads, timers, errorMsg, resultsShown, loading, requests>>

\* The staging machine: selection, validation, previews, removal and retry,
\* with every interleaving of the FileReader loads and the removal timeouts.
Next ==
    \/ fileInputChange /\ UNCHANGED <<panelVars, serverVars, listenerVars>>
    \/ handleDrop /\ UNCHANGED <<panelVars, serverVars, listenerVars>>
    \/ removeFile /\ UNCHANGED <<panelVars, serverVars, listenerVars>>
    \/ removeTimeout /\ UNCHANGED <<panelVars, serverVars, listenerVars>>
    \/ readerLoad /\ UNCHANGED <<panelVars, serverVars, listenerVars>>
    \/ retry /\ UNCHANGED <<panelVars, serverVars, listenerVars>>

Spec == Init /\ [][Next]_vars

\* The staging machine together with the request to POST /analyze/.  Here a
\* FileReader load, which takes far less time than a user's next action, the
\* 300 ms timeout or the network, completes before any other event, and the
\* form is submitted only while no request is outstanding.
settled == reads = EmptyBag

idle == requests = <<>>

NextSubmit ==
    \/ settled /\ fileInputChange /\ UNCHANGED <<panelVars, serverVars, listenerVars>>
    \/ settled /\ handleDrop /\ UNCHANGED <<panelVars, serverVars, listenerVars>>
    \/ settled /\ removeFile /\ UNCHANGED <<panelVars, serverVars, listenerVars>>
    \/ settled /\ removeTimeout /\ UNCHANGED <<panelVars, serverVars, listenerVars>>
    \/ readerLoad /\ UNCHANGED <<panelVars, serverVars, listenerVars>>
    \/ settled /\ idle /\ submit /\ UNCHANGED <<serverVars, listenerVars>>
    \/ settled /\ response /\ UNCHANGED <<serverVars, listenerVars>>
    \/ settled /\ retry /\ UNCHANGED <<panelVars, serverVars, listenerVars>>

SpecSubmit == Init /\ [][NextSubmit]_vars

\* Submissions that overlap: the form can be submitted again while a request
\* is outstanding.  Files are chosen with the file input while nothing is
\* staged, so that the requests and their responses are what varies.
NextOverlap ==
    \/ settled /\ selectedFiles = <<>> /\ fileInputChange /\ UNCHANGED <<panelVars, serverVars, listenerVars>>
    \/ readerLoad /\ UNCHANGED <<panelVars, serverVars, listenerVars>>
    \/ settled /\ submit /\ UNCHANGED <<serverVars, listenerVars>>
    \/ response /\ UNCHANGED <<serverVars, listenerVars>>
    \/ settled /\ retry /\ UNCHANGED <<panelVars, serverVars, listenerVars>>

SpecOverlap == Init /\ [][NextOverlap]_vars

\* ======================================================= caption service
\* ---------------------------------------------------------------- texts
\* the lexeme of three backticks that opens or closes a code block
fence == "[fence]"
quote == "\""

\* the lexeme at position i, or "end" past the end of the text
At(t, i) == IF i \in 1..Len(t) THEN t[i] ELSE "end"

Min(S) == CHOOSE x \in S : \A y \in S : x <= y
Max(S) == CHOOSE x \in S : \A y \in S : y <= x

\* \s* forwards from position i: the position of the first lexeme that is
\* not white space
RECURSIVE skipWs(_, _)
skipWs(t, i) == IF At(t, i) = " " THEN skipWs(t, i + 1) ELSE i

\* \s* backwards from position i: the position of the last lexeme that is
\* not white space
RECURSIVE skipWsBack(_, _)
skipWsBack(t, i) == IF At(t, i) = " " THEN skipWsBack(t, i - 1) ELSE i

\* content.match(/[fence](?:json)?\s*(\{[\s\S]*\})\s*[fence]/): the first group
\* of the leftmost match, its [\s\S]* being greedy; <<>> when nothing matches
codeBlockMatch_lazy(content) ==
    LET brace(i) == skipWs(content, IF At(content, i + 1) = "json" THEN i + 2 ELSE i + 1)
        closes(i) == {k \in (brace(i) + 1)..Len(content) :
                        /\ content[k] = "}"
                        /\ At(content, skipWs(content, k + 1)) = fence}
        starts == {i \in 1..Len(content) :
                        /\ content[i] = fence
                        /\ At(content, brace(i)) = "{"
                        /\ closes(i) # {}}
    IN  IF starts = {} THEN <<>>
        ELSE SubSeq(content, brace(Min(starts)), Min(closes(Min(starts))))

codeBlockMatch(content) ==
    LET brace(i) == skipWs(content, IF At(content, i + 1) = "json" THEN i + 2 ELSE i + 1)
        closes(i) == {k \in (brace(i) + 1)..Len(content) :
                        /\ content[k] = "}"
                        /\ At(content, skipWs(content, k + 1)) = fence}
        starts == {i \in 1..Len(content) :
                        /\ content[i] = fence
                        /\ At(content, brace(i)) = "{"
                        /\ closes(i) # {}}
    IN  IF starts = {} THEN <<>>
        ELSE SubSeq(content, brace(Min(starts)), Max(closes(Min(starts))))

\* .replace(/^[fence]json\s*/, "").replace(/^[fence]\s*/, "").replace(/\s*[fence]$/, "")
stripFences(jsonContent) ==
    LET a == IF At(jsonContent, 1) = fence /\ At(jsonContent, 2) = "json"
             THEN SubSeq(jsonContent, skipWs(jsonContent, 3), Len(jsonContent))
             ELSE jsonContent
        b == IF At(a, 1) = fence THEN SubSeq(a, skipWs(a, 2), Len(a)) ELSE a
    IN  IF At(b, Len(b)) = fence
        THEN SubSeq(b, 1, skipWsBack(b, Len(b) - 1))
        ELSE b

\* ----------------------------------------------------------- JSON values
\* A scalar is its type and, for a string, its characters.  A parsed value
\* is a scalar together with its english and thai members when it is an
\* object (other members are not read by the schema).
Undefined == [type |-> "undefined", str |-> <<>>]
Str(chars) == [type |-> "string", str |-> chars]
Number == [type |-> "number", str |-> <<>>]
Null == [type |-> "null", str |-> <<>>]
Value(scalar) ==
    [type |-> scalar.type, str |-> scalar.str, english |-> Undefined, thai |-> Undefined]
EmptyObject == [type |-> "object", str |-> <<>>, english |-> Undefined, thai |-> Undefined]

SyntaxError == [ok |-> FALSE, val |-> Undefined, next |-> 0]

\* a string starting at the quote at position i
parseString(t, i) ==
    LET ends == {j \in (i + 1)..Len(t) : t[j] = quote}
    IN  IF ends = {} THEN SyntaxError
        ELSE [ok |-> TRUE, val |-> Str(SubSeq(t, i + 1, Min(ends) - 1)), next |-> Min(ends) + 1]

parseScalar(t, i) ==
    CASE At(t, i) = quote  -> parseString(t, i)
      [] At(t, i) = "1"    -> [ok |-> TRUE, val |-> Number, next |-> i + 1]
      [] At(t, i) = "null" -> [ok |-> TRUE, val |-> Null, next |-> i + 1]
      [] OTHER             -> SyntaxError

\* the members of an object from position i on, up to its closing brace
RECURSIVE parseMembers(_, _, _)
parseMembers(t, i, obj) ==
    IF At(t, i) # quote THEN SyntaxError ELSE
    LET key == parseString(t, i) IN
    IF ~key.ok THEN SyntaxError ELSE
    LET colon == skipWs(t, key.next) IN
    IF At(t, colon) # ":" THEN SyntaxError ELSE
    LET member == parseScalar(t, skipWs(t, colon + 1)) IN
    IF ~member.ok THEN SyntaxError ELSE
    LET with == CASE key.val.str = <<"english">> -> [obj EXCEPT !.english = member.val]
                  [] key.val.str = <<"thai">>    -> [obj EXCEPT !.thai = member.val]
                  [] OTHER                       -> obj
        after == skipWs(t, member.next)
    IN  CASE At(t, after) = "," -> parseMembers(t, skipWs(t, after + 1), with)
          [] At(t, after) = "}" -> [ok |-> TRUE, val |-> with, next |-> after + 1]
          [] OTHER              -> SyntaxError

parseValue(t, i) ==
    IF At(t, i) = "{"
    THEN IF At(t, skipWs(t, i + 1)) = "}"
         THEN [ok |-> TRUE, val |-> EmptyObject, next |-> skipWs(t, i + 1) + 1]
         ELSE parseMembers(t, skipWs(t, i + 1), EmptyObject)
    ELSE LET scalar == parseScalar(t, i)
         IN  IF scalar.ok
             THEN [ok |-> TRUE, val |-> Value(scalar.val), next |-> scalar.next]
             ELSE SyntaxError

\* JSON.parse(text): ok is false when it throws
JSON_parse(text) ==
    LET parsed == parseValue(text, skipWs(text, 1))
    IN  IF parsed.ok /\ skipWs(text, parsed.next) > Len(text)
        THEN [ok |-> TRUE, val |-> parsed.val]
        ELSE [ok |-> FALSE, val |-> Value(Undefined)]

\* storyResponseSchema.parse(parsedContent): ok is false when it throws
storyResponseSchema_anyEnglish(parsedContent) ==
    [ok  |-> /\ parsedContent.type = "object"
             /\ parsedContent.thai.type \in {"string", "undefined"},
     val |-> [english |-> parsedContent.english, thai |-> parsedContent.thai]]

storyResponseSchema(parsedContent) ==
    [ok  |-> /\ parsedContent.type = "object"
             /\ parsedContent.english.type = "string"
             /\ parsedContent.thai.type \in {"string", "undefined"},
     val |-> [english |-> parsedContent.english, thai |-> parsedContent.thai]]

\* ------------------------------------------------------------ strategies
Strategies ==
    {"generateStoryFromImage", "generateStoryFromMultipleImages",
     "generateStoryFromVideoFrames", "generateStoryFromVideo"}

Story(english, thai) == [english |-> Str(<<english>>), thai |-> Str(<<thai>>)]
NoStory == [english |-> Undefined, thai |-> Undefined]

\* mimetype.split('/')[1]
MediaSubtype(t) ==
    CASE t = "video/mp4" -> "mp4"
      [] t = "video"     -> "undefined"

\* the videoDetails of generateStoryFromVideo; "" is an absent duration
NoDetails == [duration |-> "", mimetype |-> ""]
VideoDetails ==
    {[duration |-> "", mimetype |-> "video/mp4"],
     [duration |-> "12s", mimetype |-> "video/mp4"],
     [duration |-> "", mimetype |-> "video"]}
ArgsOf(strategy) ==
    IF strategy = "generateStoryFromVideo" THEN VideoDetails ELSE {NoDetails}

\* the result returned in fallback mode
canned(strategy, videoDetails) ==
    CASE strategy = "generateStoryFromImage" ->
            Story("A captivating image that tells a unique visual story. The composition draws the viewer in with its distinctive elements and emotional resonance.",
                  "(th) A captivating image that tells a unique story. The composition draws the viewer in with its distinctiveness and emotion.")
      [] strategy = "generateStoryFromMultipleImages" ->
            Story("A compelling visual narrative unfolds across these images. Each frame contributes to a unified story, creating an emotional journey through connected visual elements.",
                  "(th) A compelling story appears in these images. Each image contributes to a unified story, creating an emotional journey through connected visual elements.")
      [] strategy = "generateStoryFromVideoFrames" ->
            Story("A dynamic video sequence that captures motion and time. The visual elements tell a story of movement and action that unfolds through each frame.",
                  "(th) A lively video sequence that captures motion and time. The visual elements tell a story of movement and action that unfolds in each frame.")
      [] strategy = "generateStoryFromVideo" ->
            LET duration == IF videoDetails.duration # "" THEN videoDetails.duration
                            ELSE "a few moments"
                format == MediaSubtype(videoDetails.mimetype)
            IN  [english |-> Str(<<"A ", duration, " video that captures moments in time. This ",
                                   format, " format clip invites you to watch and experience the content directly.">>),
                 thai    |-> Str(<<"(th) A video of length ", duration, " that captures moments. This clip of format ",
                                   format, " invites you to watch and experience the content directly.">>)]

\* the result returned by the catch around the parsing of the reply
parseFailure(strategy) ==
    CASE strategy = "generateStoryFromImage" ->
            Story("We couldn't properly analyze this image.",
                  "(th) We could not analyze this image correctly.")
      [] strategy = "generateStoryFromMultipleImages" ->
            Story("We couldn't properly analyze these images together.",
                  "(th) We could not analyze these images together correctly.")
      [] strategy = "generateStoryFromVideoFrames" ->
            Story("We couldn't properly analyze this video.",
                  "(th) We could not analyze this video correctly.")
      [] strategy = "generateStoryFromVideo" ->
            Story("We've processed your video. Watch it to experience the full story.",
                  "(th) We have processed your video. Watch the video to experience the whole story.")

\* the result returned by the catch around the whole body
invocationFailure(strategy) ==
    CASE strategy = "generateStoryFromImage" ->
            Story("We couldn't analyze this image. Our image analysis service is currently unavailable.",
                  "(th) We could not analyze this image. Our image analysis service is not available at the moment.")
      [] strategy = "generateStoryFromMultipleImages" ->
            Story("We couldn't analyze these images together. Please try again with clearer images.",
                  "(th) We could not analyze these images together. Please try again with clearer images.")
      [] strategy = "generateStoryFromVideoFrames" ->
            Story("We couldn't analyze this video completely. You can watch it to experience the full content.",
                  "(th) We could not analyze this video completely. You can watch the video to experience the whole content.")
      [] strategy = "generateStoryFromVideo" ->
            Story("We've processed your video. Watch it to experience the full story.",
                  "(th) We have processed your video. Watch the video to experience the whole story.")

\* a promise that has settled
Fulfilled(story) == [state |-> "fulfilled", value |-> story]
Rejected == [state |-> "rejected", value |-> NoStory]
Pending == [state |-> "pending", value |-> NoStory]

\* the inner try block: extract, strip, parse, validate; its catch returns
\* the parse-failure placeholder
parseReply_noCatch(strategy, content) ==
    LET codeBlock == codeBlockMatch(content)
        jsonContent == stripFences(IF codeBlock # <<>> THEN codeBlock ELSE content)
        parsedContent == JSON_parse(jsonContent)
        story == storyResponseSchema(parsedContent.val)
    IN  IF parsedContent.ok /\ story.ok
        THEN Fulfilled(story.val)
        ELSE Rejected

parseReply(strategy, content) ==
    LET codeBlock == codeBlockMatch(content)
        jsonContent == stripFences(IF codeBlock # <<>> THEN codeBlock ELSE content)
        parsedContent == JSON_parse(jsonContent)
        story == storyResponseSchema(parsedContent.val)
    IN  IF parsedContent.ok /\ story.ok
        THEN Fulfilled(story.val)
        ELSE Fulfilled(parseFailure(strategy))

\* ------------------------------------------------- replies of the model
\* the text of a JSON object with the given english and thai members
\* (Undefined: the member is absent)
scalarText(v) ==
    CASE v.type = "string" -> <<quote>> \o v.str \o <<quote>>
      [] v.type = "number" -> <<"1">>
      [] v.type = "null"   -> <<"null">>
memberText(key, v) == <<quote, key, quote, ":">> \o scalarText(v)
objectText(english, thai) ==
    <<"{">>
    \o (IF english.type # "undefined" THEN memberText("english", english) ELSE <<>>)
    \o (IF english.type # "undefined" /\ thai.type # "undefined" THEN <<",">> ELSE <<>>)
    \o (IF thai.type # "undefined" THEN memberText("thai", thai) ELSE <<>>)
    \o <<"}">>

\* captions: a plain one, an empty one, and one that quotes a fenced block
EnglishStrings == {Str(<<"x">>), Str(<<>>), Str(<<fence, "{", "x", "}", fence>>)}
ThaiStrings == {Str(<<"y">>)}
CleanObjects ==
    {[english |-> e, thai |-> th] : e \in EnglishStrings, th \in ThaiStrings \cup {Undefined}}
\* objects without a string english member, and objects whose thai is null
BadEnglishObjects ==
    {[english |-> e, thai |-> th] : e \in {Undefined, Number, Null},
                                    th \in ThaiStrings \cup {Undefined}}
BadThaiObjects == {[english |-> e, thai |-> Null] : e \in EnglishStrings}
TextOf(obj) == objectText(obj.english, obj.thai)
\* the text of an object cut before its closing brace
Truncated(text) == SubSeq(text, 1, Len(text) - 1)
OtherTexts == {<<quote, "x", quote>>, <<"x">>, <<"null">>}
Texts ==
    {TextOf(obj) : obj \in CleanObjects \cup BadEnglishObjects \cup BadThaiObjects}
    \cup {Truncated(TextOf(obj)) : obj \in CleanObjects}
    \cup OtherTexts

Wrappers ==
    {"bare", "padded", "fenced", "fenced json", "fenced lines", "fenced json lines",
     "prose before fence", "space after fence", "unclosed fence"}
Wrap(w, text) ==
    CASE w = "bare"               -> text
      [] w = "padded"             -> <<" ">> \o text \o <<" ">>
      [] w = "fenced"             -> <<fence>> \o text \o <<fence>>
      [] w = "fenced json"        -> <<fence, "json">> \o text \o <<fence>>
      [] w = "fenced lines"       -> <<fence, " ">> \o text \o <<" ", fence>>
      [] w = "fenced json lines"  -> <<fence, "json", " ">> \o text \o <<" ", fence>>
      [] w = "prose before fence" -> <<"x", " ", fence, "json", " ">> \o text \o <<" ", fence>>
      [] w = "space after fence"  -> <<fence, "json", " ">> \o text \o <<" ", fence, " ">>
      [] w = "unclosed fence"     -> <<fence, "json", " ">> \o text
Replies == {Wrap(w, text) : w \in Wrappers, text \in Texts}

\* what awaiting openai.chat.completions.create yields: a thrown error, a
\* response without content (no choice, null or ""), or a reply text
ModelOutcomes ==
    {[kind |-> "thrown", content |-> <<>>], [kind |-> "empty", content |-> <<>>]}
    \cup {[kind |-> "reply", content |-> r] : r \in Replies}

\* --------------------------------------------------------------- actions
\* how verifyApiKey ends: it returns true, returns true after setting the
\* flag itself (no vision model is listed), or returns false
VerifyOutcomes ==
    {[isValid |-> TRUE, noModel |-> FALSE], [isValid |-> TRUE, noModel |-> TRUE],
     [isValid |-> FALSE, noModel |-> FALSE]}

\* the startup verification completes: verifyApiKey returns into the
\* function that was started, and not awaited, when the module loaded
startupVerification ==
    /\ verification = "running"
    /\ \E o \in VerifyOutcomes :
        /\ verification' = IF o.isValid THEN "valid" ELSE "invalid"
        /\ usingFallbackMode' = (usingFallbackMode \/ o.noModel \/ ~o.isValid)
    /\ UNCHANGED calls

\* The media a strategy is called with: base64Image, base64Images (two or
\* more images, each "a" or "b"), framePaths (the n-th path is the numeral n)
\* with a transcript, and nothing for generateStoryFromVideo, whose
\* videoDetails have no thumbnail here.
Input(media, transcript) == [media |-> media, transcript |-> transcript]
framePathsOf(n) == [k \in 1..n |-> ToString(k)]
InputsOf(strategy) ==
    CASE strategy = "generateStoryFromImage" -> {Input(<<"a">>, "")}
      [] strategy = "generateStoryFromMultipleImages" ->
            {Input(images, "") : images \in UNION {[1..n -> {"a", "b"}] : n \in 2..MaxImages}}
      [] strategy = "generateStoryFromVideoFrames" ->
            {Input(framePathsOf(n), transcript) : n \in 0..MaxFrames, transcript \in {"", "hi"}}
      [] strategy = "generateStoryFromVideo" -> {Input(<<>>, "")}

\* the selection of at most 10 of the frames
selectedFrames_everyStep(framePaths) ==
    IF Len(framePaths) <= 10
    THEN framePaths
    ELSE LET step == Len(framePaths) \div 10
         IN  [i \in 1..(Len(framePaths) \div step) |-> framePaths[(i - 1) * step + 1]]

selectedFrames(framePaths) ==
    IF Len(framePaths) <= 10
    THEN framePaths
    ELSE LET step == Len(framePaths) \div 10
         IN  [i \in 1..10 |-> framePaths[Min({(i - 1) * step, Len(framePaths) - 1}) + 1]]

\* fs.readFileSync(framePath).toString("base64")
base64Of(framePath) == <<"base64 of frame ", framePath>>

\* the parts of the content of the user message
TextPart(text) == [type |-> "text", text |-> text, url |-> <<>>]
ImagePart(base64) == [type |-> "image_url", text |-> <<>>, url |-> <<"data:image/jpeg;base64,">> \o base64]
imageParts_firstOnly(base64Images) ==
    IF base64Images = <<>> THEN <<>> ELSE <<ImagePart(<<base64Images[1]>>)>>
imageParts(base64Images) == [i \in 1..Len(base64Images) |-> ImagePart(<<base64Images[i]>>)]
frameParts(base64Frames) == [i \in 1..Len(base64Frames) |-> ImagePart(base64Frames[i])]

\* userContent, the content of the user message that the strategy sends
userContent(strategy, args, input) ==
    CASE strategy = "generateStoryFromImage" ->
            <<TextPart(<<"Create an engaging caption for this image that captures its essence and tells its story.">>)>>
            \o imageParts(input.media)
      [] strategy = "generateStoryFromMultipleImages" ->
            <<TextPart(<<"Create an engaging caption that connects these images and tells their collective story.">>)>>
            \o imageParts(input.media)
      [] strategy = "generateStoryFromVideoFrames" ->
            LET frames == selectedFrames(input.media)
                base64Frames == [i \in 1..Len(frames) |-> base64Of(frames[i])]
            IN  <<TextPart(IF input.transcript # ""
                           THEN <<"Create an engaging caption for this video based on these frames and transcript: ",
                                  quote, input.transcript, quote, ".">>
                           ELSE <<"Create an engaging caption for this video based on these frames.">>)>>
                \o frameParts(base64Frames)
      [] strategy = "generateStoryFromVideo" ->
            <<TextPart(<<"Create an engaging caption for a video with these details:",
                         "- Duration: ", IF args.duration # "" THEN args.duration ELSE "Unknown",
                         "- Format: ", args.mimetype>>)>>

\* a strategy from its entry to its first await or its return; readOk says
\* whether fs.readFileSync succeeds on every selected frame; requests are
\* the user contents passed to openai.chat.completions.create
enter(strategy, args, input, readOk) ==
    IF usingFallbackMode
    THEN [strategy |-> strategy, args |-> args, input |-> input, requests |-> <<>>,
          pc |-> "returned", modelCalls |-> 0,
          outcome |-> "fallback", content |-> <<>>,
          result |-> Fulfilled(canned(strategy, args))]
    ELSE IF strategy = "generateStoryFromVideoFrames" /\ ~readOk
                /\ selectedFrames(input.media) # <<>>
    THEN [strategy |-> strategy, args |-> args, input |-> input, requests |-> <<>>,
          pc |-> "returned", modelCalls |-> 0,
          outcome |-> "read failed", content |-> <<>>,
          result |-> Fulfilled(invocationFailure(strategy))]
    ELSE [strategy |-> strategy, args |-> args, input |-> input,
          requests |-> <<userContent(strategy, args, input)>>,
          pc |-> "awaiting", modelCalls |-> 1,
          outcome |-> "none", content |-> <<>>, result |-> Pending]

strategyCall ==
    /\ Len(calls) < MaxCalls
    /\ \E strategy \in Strategies : \E args \in ArgsOf(strategy) :
       \E input \in InputsOf(strategy) : \E readOk \in BOOLEAN :
        calls' = Append(calls, enter(strategy, args, input, readOk))
    /\ UNCHANGED <<usingFallbackMode, verification>>

\* a strategy from the completion of its model call to its return
resume_retriesThrown(call, o) ==
    IF o.kind = "thrown" /\ call.modelCalls < 2
    THEN [call EXCEPT !.modelCalls = call.modelCalls + 1]
    ELSE [call EXCEPT
            !.pc = "returned", !.outcome = o.kind, !.content = o.content,
            !.result = IF o.kind = "reply" THEN parseReply(call.strategy, o.content)
                       ELSE Fulfilled(invocationFailure(call.strategy))]

resume(call, o) ==
    [call EXCEPT
        !.pc = "returned", !.outcome = o.kind, !.content = o.content,
        !.result = IF o.kind = "reply" THEN parseReply(call.strategy, o.content)
                   ELSE Fulfilled(invocationFailure(call.strategy))]

modelReturns ==
    /\ \E i \in 1..Len(calls) : \E o \in ModelOutcomes :
        /\ calls[i].pc = "awaiting"
        /\ calls' = [calls EXCEPT ![i] = resume(calls[i], o)]
    /\ UNCHANGED <<usingFallbackMode, verification>>

\* the caller of a strategy receives the settled promise
callerResumes ==
    /\ \E i \in 1..Len(calls) :
        /\ calls[i].pc = "returned"
        /\ calls' = SubSeq(calls, 1, i - 1) \o SubSeq(calls, i + 1, Len(calls))
    /\ UNCHANGED <<usingFallbackMode, verification>>

NextServer ==
    \/ startupVerification /\ UNCHANGED <<clientVars, panelVars, listenerVars>>
    \/ strategyCall /\ UNCHANGED <<clientVars, panelVars, listenerVars>>
    \/ modelReturns /\ UNCHANGED <<clientVars, panelVars, listenerVars>>
    \/ callerResumes /\ UNCHANGED <<clientVars, panelVars, listenerVars>>

SpecServer == Init /\ [][NextServer]_vars

\* ------------------------------------------------ the listener, by itself
\* One submit listener whose await of fetch has yielded any of the outcomes:
\* it writes its text to the error panel, or shows the results.
InitFetched ==
    /\ InitClient
    /\ InitServer
    /\ InitPanel
    /\ fetched \in FetchOutcomes
    /\ shownError = NoMessage
    /\ shownResults = NoResults

afterFetch ==
    /\ shownError = NoMessage
    /\ shownResults = NoResults
    /\ IF thrownAfterFetch(fetched).thrown
       THEN /\ shownError' = displayedError(thrownAfterFetch(fetched))
            /\ UNCHANGED shownResults
       ELSE /\ shownResults' \in displayedResults(fetched.data)
            /\ UNCHANGED shownError
    /\ UNCHANGED <<clientVars, panelVars, serverVars, fetched>>

NextFetched == afterFetch

SpecFetched == InitFetched /\ [][NextFetched]_vars

\* ================================================================ claims
IsImageFile(f) == MediaPrefix(f.type) = "image/"
IsVideoFile(f) == MediaPrefix(f.type) = "video/"
Admissible(f) ==
    \/ f.type \in {"image/jpeg", "image/jpg", "image/png"} /\ f.size <= 10 * 1024 * 1024
    \/ f.type = "video/mp4" /\ f.size <= 50 * 1024 * 1024
AllAdmissible(s) == \A i \in 1..Len(s) : Admissible(s[i])
NoDuplicates(s) == \A i, j \in 1..Len(s) : s[i] = s[j] => i = j
IsPrefix(s, t) == Len(s) <= Len(t) /\ SubSeq(t, 1, Len(s)) = s
Copies(bag, x) == IF x \in BagToSet(bag) THEN CopiesIn(x, bag) ELSE 0
MixTexts == {CannotMix, NotBoth}
ValidatorTexts == {CannotMix, NotBoth, VideoTooLarge, UnsupportedTypes, FilesTooLarge}
Verdict(b) == validateFiles(b, selectedFiles)

\* C1: the staged selection is made only of image files or is exactly one
\* video file: never a video with another file, never two videos.
C1_ImagesOrOneVideo ==
    \/ \A i \in 1..Len(selectedFiles) : IsImageFile(selectedFiles[i])
    \/ Len(selectedFiles) = 1 /\ IsVideoFile(selectedFiles[1])

\* a video is staged and an attempt to add to it was refused
C1_Witness ==
    /\ Len(selectedFiles) = 1
    /\ IsVideoFile(selectedFiles[1])
    /\ errorShown
    /\ errorMsg.text = CannotMix

\* C2: every staged file satisfies the file constraints, every file of a
\* request to POST /analyze/ does, and the files of a request are exactly
\* the files staged when submit ran.
C2_StagedAndSentAdmissible ==
    /\ AllAdmissible(selectedFiles)
    /\ \A r \in 1..Len(requests) : AllAdmissible(requests[r])
C2_SubmitSendsStaged ==
    Len(requests') > Len(requests) => requests'[Len(requests')] = selectedFiles
C2_OnlyValidFilesReachNetwork ==
    [](C2_StagedAndSentAdmissible) /\ [][C2_SubmitSendsStaged]_vars

\* a request is outstanding while the file input still holds a batch that
\* was refused for its size
C2_Witness ==
    /\ Len(requests) = 1
    /\ fileInput = "picked"
    /\ errorMsg.text = FilesTooLarge

\* C3 (as stated): every non-empty batch of allowed images of at most 10 MiB
\* is accepted, whatever is staged.
AllowedImages(b) ==
    /\ Len(b) > 0
    /\ \A i \in 1..Len(b) : /\ b[i].type \in {"image/jpeg", "image/jpg", "image/png"}
                            /\ b[i].size <= 10 * 1024 * 1024
C3_AcceptsWhateverIsStaged ==
    \A b \in Batches : AllowedImages(b) => Verdict(b).ok

\* C3 (amended): such a batch is accepted whenever no video is staged, and
\* refused with the mixing reason when a video is staged.
C3_AcceptsUnlessVideoStaged ==
    \A b \in Batches :
        AllowedImages(b) =>
            IF \E j \in 1..Len(selectedFiles) : selectedFiles[j].type = "video/mp4"
            THEN ~Verdict(b).ok /\ Verdict(b).msg.text = CannotMix
            ELSE Verdict(b).ok

\* two images are staged: an image batch was accepted
C3_Witness ==
    /\ Len(selectedFiles) = 2
    /\ \A i \in 1..2 : IsImageFile(selectedFiles[i])

\* C4 (as stated): a batch holding a video of more than 50 MiB is refused
\* and the reason shown contains that video's name, whatever the size of the
\* batch and whatever is staged.
HasBigVideo(b, i) == b[i].type = "video/mp4" /\ b[i].size > 50 * 1024 * 1024
C4_NamesVideoAlways ==
    \A b \in Batches : \A i \in 1..Len(b) :
        HasBigVideo(b, i) =>
            /\ ~Verdict(b).ok
            /\ Verdict(b).shown
            /\ b[i].name \in Range(Verdict(b).msg.names)

\* C4 (amended): such a batch is always refused with a reason shown; the
\* reason is the too-large one and names the video when the batch is that
\* one file and the selection is empty or holds a video; otherwise it is a
\* mixing reason, which names no file.
C4_RejectsAndNamesSingleVideo ==
    \A b \in Batches : \A i \in 1..Len(b) :
        HasBigVideo(b, i) =>
            /\ ~Verdict(b).ok
            /\ Verdict(b).shown
            /\ IF Len(b) = 1 /\ (selectedFiles = <<>> \/ someVideo(selectedFiles))
               THEN Verdict(b).msg = [text |-> VideoTooLarge, names |-> <<b[i].name>>]
               ELSE Verdict(b).msg.text \in MixTexts /\ Verdict(b).msg.names = <<>>

\* the too-large reason is on display, naming the video
C4_Witness ==
    /\ errorShown
    /\ errorMsg = [text |-> VideoTooLarge, names |-> <<"b">>]

\* C5: a batch with a video and at least one other file is refused as a
\* whole, with a reason saying that video and images cannot be mixed,
\* whatever is staged.
C5_VideoWithOthersRejected ==
    \A b \in Batches :
        (Len(b) >= 2 /\ \E i \in 1..Len(b) : b[i].type = "video/mp4") =>
            /\ ~Verdict(b).ok
            /\ Verdict(b).shown
            /\ Verdict(b).msg.text \in MixTexts

\* the reason for a video batched with other files is on display
C5_Witness ==
    /\ errorShown
    /\ errorMsg.text = NotBoth

\* C6: a step that puts a validator's reason on display or leaves refused
\* files in the file input (a refused change or drop) leaves the staged
\* selection, the grid and the reads as they were.
C6_RejectionStep ==
    \/ /\ errorShown'
       /\ errorMsg'.text \in ValidatorTexts
       /\ <<errorShown', errorMsg'>> # <<errorShown, errorMsg>>
    \/ fileInput' = "picked" /\ fileInput # "picked"
C6_RejectionChangesNothing ==
    [][C6_RejectionStep =>
          /\ selectedFiles' = selectedFiles
          /\ previewContent' = previewContent
          /\ reads' = reads]_vars

\* a chosen batch with one file of unsupported type was refused while one
\* file was staged
C6_Witness ==
    /\ errorShown
    /\ errorMsg.text = UnsupportedTypes
    /\ Len(errorMsg.names) = 1
    /\ fileInput = "picked"
    /\ Len(selectedFiles) = 1

Offending(b, text) ==
    LET BadType(f) == f.type \notin {"image/jpeg", "image/jpg", "image/png"}
        TooBig(f) == f.size > 10 * 1024 * 1024
        BigVideo(f) == f.type = "video/mp4" /\ f.size > 50 * 1024 * 1024
    IN  CASE text = UnsupportedTypes -> NamesOf(SelectSeq(b, BadType))
          [] text = FilesTooLarge    -> NamesOf(SelectSeq(b, TooBig))
          [] text = VideoTooLarge    -> NamesOf(SelectSeq(b, BigVideo))
          [] OTHER                   -> <<>>
C8_NoDuplicates ==
    /\ NoDuplicates(selectedFiles)
    /\ \A b \in Batches :
        Verdict(b).ok =>
            LET start == IF Len(b) = 1 /\ IsVideoFile(b[1]) THEN <<>> ELSE selectedFiles
                r == updateSelectedFiles(b, selectedFiles)
            IN  /\ NoDuplicates(r)
                /\ IsPrefix(start, r)
                /\ Range(r) = Range(start) \cup Range(b)

\* the one staged file is being read twice: it was staged again
C8_Witness ==
    /\ Len(selectedFiles) = 1
    /\ Copies(reads, selectedFiles[1]) = 2
    /\ timers = EmptyBag

\* C9: when a removal takes effect at most one entry leaves the staged
\* selection and the others stay, in order.
RemoveAt(s, i) == SubSeq(s, 1, i - 1) \o SubSeq(s, i + 1, Len(s))
C9_RemovalStep == BagCardinality(timers') < BagCardinality(timers)
C9_RemovesExactlyOne ==
    [][C9_RemovalStep =>
          \/ selectedFiles' = selectedFiles
          \/ \E i \in 1..Len(selectedFiles) : selectedFiles' = RemoveAt(selectedFiles, i)]_vars

\* C10: once no FileReader load is pending, the grid holds one item for
\* each staged file and nothing else.
C10_GridMatchesSelection ==
    reads = EmptyBag => SeqToBag(previewContent) = SeqToBag(selectedFiles)

\* C11: at most one request to POST /analyze/ is outstanding at any time: a
\* submit event during an outstanding request starts no second request.
C11_AtMostOneOutstanding == Len(requests) <= 1

\* C12: a click on retry leaves the staged selection, the file input and the
\* grid empty and the error panel hidden, so that the next batch is validated
\* as against an empty selection: a single admissible video is accepted.
C12_RetryStep == errorShown /\ ~errorShown'
C12_RetryClearsStagedState ==
    [][C12_RetryStep =>
          /\ selectedFiles' = <<>>
          /\ fileInput' = "empty"
          /\ previewContent' = <<>>
          /\ \A b \in Batches :
                /\ validateFiles(b, selectedFiles') = validateFiles(b, <<>>)
                /\ (Len(b) = 1 /\ b[1].type = "video/mp4" /\ b[1].size <= 50 * 1024 * 1024)
                      => validateFiles(b, selectedFiles').ok]_vars

\* after a retry a video is staged while the preview of an image staged
\* before the retry is still being read
C12_Witness ==
    /\ ~errorShown
    /\ errorMsg.text = CannotMix
    /\ Len(selectedFiles) = 1
    /\ IsVideoFile(selectedFiles[1])
    /\ \E f \in BagToSet(reads) : IsImageFile(f)

\* ------------------------------------------------ caption service claims
Returned(call) == call.pc = "returned"
Replied(call) == call.pc = "returned" /\ call.outcome = "reply"
IsWrapped(content, ws, texts) == \E w \in ws : \E t \in texts : content = Wrap(w, t)

\* C13: each of the four strategies is total: whatever the model call yields
\* (a reply, no content, a thrown error) and whether or not the frames can
\* be read, the promise is fulfilled with an object whose english is a string.
C13_Total(result) == result.state = "fulfilled" /\ result.value.english.type = "string"
C13_StrategiesAreTotal ==
    \A i \in 1..Len(calls) :
        /\ Returned(calls[i]) => C13_Total(calls[i].result)
        /\ calls[i].pc = "awaiting" =>
              \A o \in ModelOutcomes : C13_Total(resume(calls[i], o).result)

\* the frame strategy returned after a response without content
C13_Witness ==
    \E i \in 1..Len(calls) :
        /\ Returned(calls[i])
        /\ calls[i].strategy = "generateStoryFromVideoFrames"
        /\ calls[i].outcome = "empty"

\* C14: a reply that is cut before its closing brace, or whose object has no
\* english member or one that is not a string, however it is wrapped, makes
\* the strategy return its parse-failure placeholder and raise nothing.
C14_BadTexts ==
    {Truncated(TextOf(obj)) : obj \in CleanObjects}
    \cup {TextOf(obj) : obj \in BadEnglishObjects}
C14_MalformedYieldsPlaceholder ==
    \A i \in 1..Len(calls) :
        (Replied(calls[i]) /\ IsWrapped(calls[i].content, Wrappers, C14_BadTexts)) =>
            calls[i].result = Fulfilled(parseFailure(calls[i].strategy))

\* a fenced object whose english is a number was answered with the
\* placeholder of the multi-image strategy
C14_Witness ==
    \E i \in 1..Len(calls) :
        /\ Replied(calls[i])
        /\ calls[i].strategy = "generateStoryFromMultipleImages"
        /\ calls[i].content = Wrap("fenced json lines", TextOf([english |-> Number, thai |-> Undefined]))
        /\ calls[i].result.value.english.str = <<"We couldn't properly analyze these images together.">>

\* C15 (as stated): every reply that is the text of an object with a string
\* english and an optional string thai, bare or in a fence with an optional
\* json tag, yields exactly these english and thai; on a bare reply the
\* extract and strip steps change nothing.
C15_Fences == {"fenced", "fenced json", "fenced lines", "fenced json lines"}
C15_Cleaned(content) ==
    stripFences(IF codeBlockMatch(content) # <<>> THEN codeBlockMatch(content) ELSE content)
C15_Yields(call, obj) ==
    call.result = Fulfilled([english |-> obj.english, thai |-> obj.thai])
C15_ParsesEveryCleanReply ==
    \A i \in 1..Len(calls) : \A obj \in CleanObjects :
        /\ (Replied(calls[i]) /\ IsWrapped(calls[i].content, C15_Fences, {TextOf(obj)}))
              => C15_Yields(calls[i], obj)
        /\ (Replied(calls[i]) /\ calls[i].content = TextOf(obj))
              => C15_Yields(calls[i], obj) /\ C15_Cleaned(calls[i].content) = calls[i].content

\* C15 (amended): this holds for every fenced reply, and for every bare reply
\* in which no string quotes a fenced block; a bare reply with a string that
\* holds a fence, a braced text and a fence is answered with the placeholder.
C15_QuotesFence(obj) == fence \in Range(obj.english.str) \cup Range(obj.thai.str)
C15_ParsesCleanReplyWithoutQuotedFence ==
    \A i \in 1..Len(calls) : \A obj \in CleanObjects :
        /\ (Replied(calls[i]) /\ IsWrapped(calls[i].content, C15_Fences, {TextOf(obj)}))
              => C15_Yields(calls[i], obj)
        /\ (Replied(calls[i]) /\ calls[i].content = TextOf(obj)) =>
              IF C15_QuotesFence(obj)
              THEN calls[i].result = Fulfilled(parseFailure(calls[i].strategy))
              ELSE C15_Yields(calls[i], obj) /\ C15_Cleaned(calls[i].content) = calls[i].content

\* a reply fenced with the json tag and line breaks, whose caption quotes a
\* fenced block, gave that caption and no thai
C15_Witness ==
    \E i \in 1..Len(calls) :
        /\ Replied(calls[i])
        /\ calls[i].content =
              Wrap("fenced json lines",
                   TextOf([english |-> Str(<<fence, "{", "x", "}", fence>>), thai |-> Undefined]))
        /\ calls[i].result.value.english.str = <<fence, "{", "x", "}", fence>>
        /\ calls[i].result.value.thai.type = "undefined"

\* C16: in every strategy the result of a failed model invocation differs
\* from the result of a reply that fails to parse.
C16_FailuresDistinguishable ==
    \A i \in 1..Len(calls) :
        (Returned(calls[i]) /\ calls[i].outcome \in {"thrown", "empty", "read failed"}) =>
            calls[i].result # Fulfilled(parseFailure(calls[i].strategy))

\* C17 (as stated): outside fallback mode every strategy call invokes the
\* model exactly once.
C17_ExactlyOneModelCall ==
    \A i \in 1..Len(calls) :
        calls[i].outcome # "fallback" => calls[i].modelCalls = 1

\* C17 (amended): no strategy call invokes the model twice; outside fallback
\* mode it invokes the model exactly once, except that the frame strategy
\* invokes it not at all when a frame cannot be read.
C17_OneModelCallUnlessFramesUnreadable ==
    \A i \in 1..Len(calls) :
        /\ calls[i].modelCalls <= 1
        /\ calls[i].outcome \notin {"fallback", "read failed"} => calls[i].modelCalls = 1
        /\ calls[i].outcome = "read failed" =>
              /\ calls[i].strategy = "generateStoryFromVideoFrames"
              /\ calls[i].modelCalls = 0

\* a strategy returned after its model call threw
C17_Witness ==
    \E i \in 1..Len(calls) :
        /\ Returned(calls[i])
        /\ calls[i].outcome = "thrown"
        /\ calls[i].modelCalls = 1

\* C18: when the startup verification has failed, every strategy call of the
\* process has returned or will return its canned result without a model
\* call, the calls that started before the verification completed included.
C18_FailedVerificationMeansNoModelCall ==
    verification = "invalid" =>
        \A i \in 1..Len(calls) :
            /\ calls[i].modelCalls = 0
            /\ Returned(calls[i]) =>
                  calls[i].result = Fulfilled(canned(calls[i].strategy, calls[i].args))

\* --------------------------------------------------- submit listener claims
C19_TryAgainTexts ==
    {"OpenAI API rate limit exceeded. Please try again in a few moments.",
     "Too many requests. Please try again later.",
     "Server error. Our team has been notified. Please try again later.",
     "Request timed out. Please try again later."}
C19_RateLimited(outcome) ==
    /\ outcome.kind = "response"
    /\ outcome.status \notin 200..299
    /\ \/ outcome.status = 429
       \/ /\ outcome.body.kind = "detail"
          /\ \E i \in 1..Len(outcome.body.words) :
                outcome.body.words[i] \in {"rate limit", "quota"}

\* C19: a response with status 429, and a response that is not ok and whose
\* detail speaks of a rate limit or a quota, is shown as a message that asks
\* to try again later, whether or not its body is JSON.
C19_RateLimitShownAsTryAgain ==
    (shownError # NoMessage /\ C19_RateLimited(fetched)) =>
        shownError.text \in C19_TryAgainTexts

\* C20: a response with status 401 or 403 is shown as the fixed advisory
\* about authentication, and never with the detail of the server, whether or
\* not its body is JSON.
C20_AuthShownAsFixedAdvisory ==
    (shownError # NoMessage /\ fetched.kind = "response" /\ fetched.status \in {401, 403}) =>
        shownError =
            Message("Authentication error. Please refresh the page and try again.", <<>>)

\* C21: a response with status 500 or above is shown as the fixed message
\* about a server error, whatever its body or its detail holds.
C21_ServerFaultShownAsFixedMessage ==
    (shownError # NoMessage /\ fetched.kind = "response" /\ fetched.status >= 500) =>
        shownError =
            Message("Server error. Our team has been notified. Please try again later.", <<>>)

\* a response outside every fixed category that carries a detail string
C22_Uncategorised(outcome) ==
    /\ outcome.kind = "response"
    /\ outcome.status \notin 200..299
    /\ outcome.status \notin {401, 403, 413, 415, 429}
    /\ outcome.status < 500
    /\ outcome.body.kind = "detail"
    /\ outcome.body.words # <<>>
    /\ \A i \in 1..Len(outcome.body.words) :
          outcome.body.words[i] \notin {"rate limit", "quota", "Rate limit"}

\* C22: for a response that is not ok and falls in none of the fixed
\* categories, the text of the error panel is exactly the detail string of
\* the server, untouched by the mapping of details and by the catch block.
C22_DetailShownVerbatim ==
    (shownError # NoMessage /\ C22_Uncategorised(fetched)) =>
        shownError = Message("%", fetched.body.words)

\* ------------------------------------------------------- results panel claims
C23_Count(field) == IF field = <<>> THEN 0 ELSE field[1]
C23_Nearest(money, amount) ==
    LET step == IF money.digits = 6 THEN 10 ELSE 1000
        off == money.count * step - amount
    IN  /\ money.digits \in {4, 6}
        /\ 2 * off <= step
        /\ 2 * off >= 0 - step

\* C23: for token counts i and o, a missing count being 0, the cost the
\* listener computes is 4 i + 16 o units of 10^-7 USD (0.40 USD and 1.60 USD
\* per million tokens) and 35 times that in THB, and these are the amounts it
\* shows, to four or six decimals; a million input tokens alone cost 0.40
\* USD, a million output tokens alone 1.60 USD.
C23_CostFormula ==
    shownResults # NoResults =>
        LET i == C23_Count(fetched.data.input_tokens)
            o == C23_Count(fetched.data.output_tokens)
            inputTokens == tokensOr(fetched.data.input_tokens)
            outputTokens == tokensOr(fetched.data.output_tokens)
        IN  /\ totalCostUsd(inputTokens, outputTokens) = 4 * i + 16 * o
            /\ totalCostThb(inputTokens, outputTokens) = 35 * (4 * i + 16 * o)
            /\ C23_Nearest(shownResults.costUsd, 4 * i + 16 * o)
            /\ C23_Nearest(shownResults.costThb, 35 * (4 * i + 16 * o))
            /\ (i = 1000000 /\ o = 0) =>
                  shownResults.costUsd = [symbol |-> "$", count |-> 4000, digits |-> 4]
            /\ (i = 0 /\ o = 1000000) =>
                  shownResults.costUsd = [symbol |-> "$", count |-> 16000, digits |-> 4]

C23_Witness ==
    /\ fetched.data.input_tokens = <<>>
    /\ fetched.data.output_tokens = <<1000000>>
    /\ shownResults.costUsd = [symbol |-> "$", count |-> 16000, digits |-> 4]
    /\ shownResults.costThb = [symbol |-> "(baht)", count |-> 560000, digits |-> 4]

\* ------------------------------------------------------- model request claims
C24_ImageUrl(base64) == <<"data:image/jpeg;base64,", base64>>
C24_WholeSet(request, images) ==
    /\ Len(request) = Len(images) + 1
    /\ request[1].type = "text"
    /\ request[1].text =
          <<"Create an engaging caption that connects these images and tells their collective story.">>
    /\ \A k \in 1..Len(images) :
          /\ request[k + 1].type = "image_url"
          /\ request[k + 1].url = C24_ImageUrl(images[k])

C30_FrameOf(part) == part.url[3]
C30_Index(i, n) == i * (n \div 10)

\* C30: generateStoryFromVideoFrames sends at most 10 frames: all n of them
\* in order when n <= 10, and otherwise the 10 frames at the indices
\* i * floor(n / 10), i = 0..9, which are distinct, increasing and below n.
C30_AtMostTenFrames ==
    \A c \in 1..Len(calls) :
        (calls[c].strategy = "generateStoryFromVideoFrames") =>
            \A r \in 1..Len(calls[c].requests) :
                LET request == calls[c].requests[r]
                    framePaths == calls[c].input.media
                    n == Len(framePaths)
                IN  /\ Len(request) - 1 <= 10
                    /\ request[1].type = "text"
                    /\ \A k \in 2..Len(request) : request[k].type = "image_url"
                    /\ n <= 10 =>
                          /\ Len(request) - 1 = n
                          /\ \A k \in 1..n : C30_FrameOf(request[k + 1]) = framePaths[k]
                    /\ n > 10 =>
                          /\ Len(request) - 1 = 10
                          /\ \A i \in 0..9 :
                                /\ C30_Index(i, n) < n
                                /\ C30_FrameOf(request[i + 2]) = framePaths[C30_Index(i, n) + 1]
                          /\ \A i \in 0..8 : C30_Index(i, n) < C30_Index(i + 1, n)

C30_Witness ==
    \E c \in 1..Len(calls) :
        /\ calls[c].strategy = "generateStoryFromVideoFrames"
        /\ Len(calls[c].input.media) = 15
        /\ Len(calls[c].requests) = 1
        /\ Len(calls[c].requests[1]) = 11
        /\ C30_FrameOf(calls[c].requests[1][11]) = "10"

\* ------------------------------------------------------------ staging claims
C25_ValidVideo(b) ==
    /\ Len(b) = 1
    /\ b[1].type = "video/mp4"
    /\ b[1].size <= 50 * 1024 * 1024
C25_ImagesStaged ==
    /\ Len(selectedFiles) > 0
    /\ \A j \in 1..Len(selectedFiles) : selectedFiles[j].type # "video/mp4"

\* C25 (as stated): a batch that is one valid video is accepted and leaves
\* the selection holding exactly that video, whatever was staged: another
\* video or images.
C25_VideoReplacesAnything ==
    \A b \in Batches :
        C25_ValidVideo(b) =>
            /\ Verdict(b).ok
            /\ updateSelectedFiles(b, selectedFiles) = b

\* C25 (amended): an accepted batch that is one video leaves the selection
\* holding exactly that video; a valid video is accepted when nothing or a
\* video is staged, which it then replaces, and is refused with the mixing
\* reason when images are staged.
C25_VideoReplacesVideo ==
    \A b \in Batches :
        /\ (Len(b) = 1 /\ IsVideoFile(b[1]) /\ Verdict(b).ok) =>
              updateSelectedFiles(b, selectedFiles) = b
        /\ C25_ValidVideo(b) =>
              IF C25_ImagesStaged
              THEN ~Verdict(b).ok /\ Verdict(b).msg.text = CannotMix
              ELSE Verdict(b).ok

\* a video is staged while the preview of the video it replaced is still
\* being read
C25_Witness ==
    /\ Len(selectedFiles) = 1
    /\ IsVideoFile(selectedFiles[1])
    /\ \E f \in BagToSet(reads) : IsVideoFile(f) /\ f # selectedFiles[1]

\* C26: from the click on its remove button on, a file is no longer in the
\* staged selection, and a submit that follows the click does not send it.
C26_Clicked == BagToSet(timers)
C26_ClickedFileNotStaged ==
    \A j \in 1..Len(selectedFiles) : selectedFiles[j].name \notin C26_Clicked
C26_SubmitOmitsClickedFile ==
    Len(requests') > Len(requests) =>
        \A k \in 1..Len(requests'[Len(requests')]) :
            requests'[Len(requests')][k].name \notin C26_Clicked
C26_RemovalIsInstant ==
    [](C26_ClickedFileNotStaged) /\ [][C26_SubmitOmitsClickedFile]_vars

C27_HasVideo(s) == \E i \in 1..Len(s) : s[i].type = "video/mp4"
C27_HasNonVideo(s) == \E i \in 1..Len(s) : s[i].type # "video/mp4"
C27_Rule2(b) == C27_HasVideo(b) /\ Len(b) > 1
C27_Rule3(b) ==
    \/ C27_HasVideo(selectedFiles) /\ C27_HasNonVideo(b)
    \/ C27_HasNonVideo(selectedFiles) /\ C27_HasVideo(b)

\* C27: a batch that holds a video among several files (rule 2) and whose
\* type class also differs from that of the staged selection (rule 3) is
\* refused with the reason of rule 2.
C27_Rule2BeforeRule3 ==
    \A b \in Batches :
        (C27_Rule2(b) /\ C27_Rule3(b)) =>
            /\ ~Verdict(b).ok
            /\ Verdict(b).shown
            /\ Verdict(b).msg.text = NotBoth

\* --------------------------------------------------------------- panel claims
\* C28: the results panel and the error panel are never both visible.
C28_PanelsExclusive == ~(resultsShown /\ errorShown)

\* C29: while a request is outstanding the loading indicator is visible, and
\* once every request has completed the results shown are those of the
\* request that was submitted last.
C29_LoadingWhileOutstanding == requests # <<>> => loading
C29_ShownAreOfLatest == (requests = <<>> /\ resultsShown) => latest = "handled"
C29_OverlapShowsLatest == C29_LoadingWhileOutstanding /\ C29_ShownAreOfLatest

====
